---- MODULE Spec2Model ----
(***************************************************************************)
(* Model of backend/app/main.py: the score and report endpoints of the     *)
(* game-companion backend, their SQLite tables, the uploads directory and  *)
(* the banned-word filter.                                                 *)
(*                                                                         *)
(* Conventions.  A Python str is a sequence of one-character strings, so   *)
(* that lower() and the substring test are computed.  An Optional value is *)
(* a sequence of length at most one: None is <<>> and a present v is <<v>>.*)
(* A SQL NULL is None.  Bytes are integers 0..255.                         *)
(***************************************************************************)
EXTENDS Integers, Sequences, FiniteSets, TLC

VARIABLES scores, reports, files, resp

vars == <<scores, reports, files, resp>>

None == <<>>
Some(v) == <<v>>

(***************************************************************************)
(* Bounds of the model.                                                    *)
(***************************************************************************)
MaxScores == 3
MaxReports == 2

(***************************************************************************)
(* Python str helpers.                                                     *)
(***************************************************************************)
UpperChars == <<"A","B","C","D","E","F","G","H","I","J","K","L","M",
                "N","O","P","Q","R","S","T","U","V","W","X","Y","Z">>
LowerChars == <<"a","b","c","d","e","f","g","h","i","j","k","l","m",
                "n","o","p","q","r","s","t","u","v","w","x","y","z">>

\* str.lower() on one character
LowerChar(c) ==
    IF \E i \in 1..26 : UpperChars[i] = c
    THEN LowerChars[CHOOSE i \in 1..26 : UpperChars[i] = c]
    ELSE c

\* str.lower()
Lower(s) == [i \in 1..Len(s) |-> LowerChar(s[i])]

\* Python's  w in s  on strings
IsSubstring(w, s) ==
    \E i \in 0..(Len(s) - Len(w)) : SubSeq(s, i + 1, i + Len(w)) = w

WhiteSpace == {" ", "\t", "\n", "\r"}

\* str.strip()
RECURSIVE LStrip(_)
LStrip(s) == IF s # <<>> /\ Head(s) \in WhiteSpace THEN LStrip(Tail(s)) ELSE s

RECURSIVE RStrip(_)
RStrip(s) ==
    IF s # <<>> /\ s[Len(s)] \in WhiteSpace
    THEN RStrip(SubSeq(s, 1, Len(s) - 1))
    ELSE s

Strip(s) == LStrip(RStrip(s))

(***************************************************************************)
(* The banned-word list.                                                   *)
(***************************************************************************)
REPORT_UPLOAD_PWD == "123"
REPORT_ADMIN_PWD == "123"

\* The lines of the file at MGC_PATH: " Bad \n", "\n", "  \n", "no\n".
MgcFileLines ==
    << <<" ","B","a","d"," ","\n">>, <<"\n">>, <<" "," ","\n">>, <<"n","o","\n">> >>

\* words = [line.strip() for line in f if line.strip()]
_load_mgc_words(lines) ==
    LET keep(l) == Strip(l) # <<>>
    IN  [i \in 1..Len(SelectSeq(lines, keep)) |-> Strip(SelectSeq(lines, keep)[i])]

_mgc == _load_mgc_words(MgcFileLines)

\* contains_mgc comparing the lowered word with the text as typed
contains_mgc_cased(text, mgc_words) ==
    IF text = <<>>
    THEN FALSE
    ELSE \E k \in 1..Len(mgc_words) :
            /\ mgc_words[k] # <<>>
            /\ IsSubstring(Lower(mgc_words[k]), text)

contains_mgc(text, mgc_words) ==
    IF text = <<>>
    THEN FALSE
    ELSE \E k \in 1..Len(mgc_words) :
            /\ mgc_words[k] # <<>>
            /\ IsSubstring(Lower(mgc_words[k]), Lower(text))

(***************************************************************************)
(* time.time(): the server clock read by a handler.                        *)
(***************************************************************************)
Times == {5}

(***************************************************************************)
(* Scores.                                                                 *)
(***************************************************************************)
PlayerNames == { <<"A","n","n">>, <<"x","B","A","D">>, <<"N","o","a","h">> }
Characters == { <<"F","o","x">>, <<"b","a","d">> }
ScoreValues == {10, 20}
FoundCounts == {3}
TsValues == {None, Some(0), Some(1)}

ScoreSubmit ==
    [playerName : PlayerNames, character : Characters, score : ScoreValues,
     foundCount : FoundCounts, ts : TsValues]

\* payload.ts or int(time.time())
CreatedAt(ts, now) == IF ts # None /\ ts[1] # 0 THEN ts[1] ELSE now

APIResponse(ok, data, error) == [ok |-> ok, data |-> data, error |-> error]

Response(op, req, status, body) ==
    [op |-> op, req |-> req, status |-> status, body |-> body]

submit_score(payloads) ==
    \E payload \in payloads, now \in Times :
        IF contains_mgc(payload.playerName, _mgc) \/ contains_mgc(payload.character, _mgc)
        THEN /\ resp' = Response("submit_score", payload, 200,
                                 APIResponse(FALSE, None, Some("mgc")))
             /\ UNCHANGED <<scores, reports, files>>
        ELSE /\ Len(scores) < MaxScores
             /\ scores' = Append(scores,
                    [id |-> Len(scores) + 1,
                     player_name |-> payload.playerName,
                     character |-> payload.character,
                     score |-> payload.score,
                     found_count |-> payload.foundCount,
                     created_at |-> CreatedAt(payload.ts, now)])
             /\ resp' = Response("submit_score", payload, 200,
                                 APIResponse(TRUE, Some([id |-> Len(scores) + 1]), None))
             /\ UNCHANGED <<reports, files>>

\* Python's max and min on two ints
Max(a, b) == IF a >= b THEN a ELSE b
Min(a, b) == IF a <= b THEN a ELSE b

\* page = max(1, page)
ClampPage(page) == Max(1, page)

\* the clamp without its lower bound: min(50, limit)
ClampLimit_nofloor(limit) == Min(50, limit)

\* limit = max(1, min(50, limit))
ClampLimit(limit) == Max(1, Min(50, limit))

\* SQL  LIMIT limit OFFSET offset  applied to an ordered result: a negative
\* LIMIT means no limit and a negative OFFSET means none (SQLite).
LimitOffset(rows, limit, offset) ==
    LET off == Max(0, offset)
        rest == IF off >= Len(rows) THEN <<>> ELSE SubSeq(rows, off + 1, Len(rows))
    IN  IF limit < 0 \/ limit >= Len(rest) THEN rest ELSE SubSeq(rest, 1, limit)

\* The orders in which SQL may return `rows` under ORDER BY: every
\* arrangement of the rows in which no later row sorts strictly before an
\* earlier one.  Rows that compare equal come in an order SQL leaves open.
RECURSIVE ArrangementsOf(_)
ArrangementsOf(S) ==
    IF S = {}
    THEN {<<>>}
    ELSE UNION {{<<x>> \o t : t \in ArrangementsOf(S \ {x})} : x \in S}

ArrangementTable ==
    [n \in 0..Max(MaxScores, MaxReports) |-> ArrangementsOf(1..n)]

Arrangements(n) == ArrangementTable[n]

\* keys[i] is the tuple of the ORDER BY terms of rows[i], all of them DESC.
RECURSIVE Descending(_, _)
Descending(k1, k2) ==
    \/ k1 = <<>>
    \/ Head(k1) > Head(k2)
    \/ Head(k1) = Head(k2) /\ Descending(Tail(k1), Tail(k2))

OrderBy(rows, keys) ==
    {[i \in 1..Len(rows) |-> rows[f[i]]] :
        f \in {g \in Arrangements(Len(rows)) :
                  \A i, j \in 1..Len(rows) :
                      i < j => Descending(keys[g[i]], keys[g[j]])}}

\* ORDER BY score DESC, created_at ASC
ScoreOrder_oldest(r) == <<r.score, 0 - r.created_at>>

\* ORDER BY score DESC, created_at DESC
ScoreOrder(r) == <<r.score, r.created_at>>

\* SELECT ... FROM scores ORDER BY score DESC, created_at DESC
SelectScores(rows) ==
    OrderBy(rows, [i \in 1..Len(rows) |-> ScoreOrder(rows[i])])

ScoreItem(r) ==
    [id |-> r.id, playerName |-> r.player_name, character |-> r.character,
     score |-> r.score, foundCount |-> r.found_count, createdAt |-> r.created_at]

Pages == {-1, 0, 1, 2}
Limits == {-1, 0, 1, 2, 51}
PageQuery == [page : Pages, limit : Limits]

\* The data of a leaderboard response when the SELECT returns the rows in
\* the order `ordered`.
LeaderboardData(ordered, total, q) ==
    LET page == ClampPage(q.page)
        limit == ClampLimit(q.limit)
        offset == (page - 1) * limit
        rows == LimitOffset(ordered, limit, offset)
    IN  [items |-> [i \in 1..Len(rows) |-> ScoreItem(rows[i])],
         total |-> total, page |-> page, limit |-> limit]

leaderboard(queries) ==
    \E ordered \in SelectScores(scores), q \in queries :
        /\ resp' = Response("leaderboard", q, 200,
              APIResponse(TRUE, Some(LeaderboardData(ordered, Len(scores), q)), None))
        /\ UNCHANGED <<scores, reports, files>>

(***************************************************************************)
(* Uploaded images: _save_data_url_to_file.                                *)
(***************************************************************************)
B64Chars ==
    <<"A","B","C","D","E","F","G","H","I","J","K","L","M","N","O","P",
      "Q","R","S","T","U","V","W","X","Y","Z","a","b","c","d","e","f",
      "g","h","i","j","k","l","m","n","o","p","q","r","s","t","u","v",
      "w","x","y","z","0","1","2","3","4","5","6","7","8","9","+","/">>

IsB64Char(c) == \E i \in 1..64 : B64Chars[i] = c
B64Value(c) == (CHOOSE i \in 1..64 : B64Chars[i] = c) - 1

\* base64.b64decode(b64) with validate=False (binascii.a2b_base64): characters
\* outside the alphabet are skipped, enough "=" after at least two characters
\* of a quad ends the input, and an unfinished quad at the end is an error.
\* The state is the position in the quad, the bits left over, the pads seen
\* and the bytes produced; the result is Some(bytes), or None for an error.
RECURSIVE A2bBase64(_, _, _, _, _)
A2bBase64(s, quad_pos, leftchar, pads, out) ==
    IF s = <<>>
    THEN IF quad_pos # 0 THEN None ELSE Some(out)
    ELSE LET c == Head(s) IN
         IF c = "="
         THEN IF quad_pos >= 2 /\ quad_pos + pads + 1 >= 4
              THEN Some(out)
              ELSE A2bBase64(Tail(s), quad_pos, leftchar,
                             IF quad_pos >= 2 THEN pads + 1 ELSE pads, out)
         ELSE IF ~IsB64Char(c)
         THEN A2bBase64(Tail(s), quad_pos, leftchar, pads, out)
         ELSE LET v == B64Value(c) IN
              CASE quad_pos = 0 -> A2bBase64(Tail(s), 1, v, 0, out)
                [] quad_pos = 1 ->
                     A2bBase64(Tail(s), 2, v % 16, 0,
                               Append(out, leftchar * 4 + v \div 16))
                [] quad_pos = 2 ->
                     A2bBase64(Tail(s), 3, v % 4, 0,
                               Append(out, leftchar * 16 + v \div 4))
                [] quad_pos = 3 ->
                     A2bBase64(Tail(s), 0, 0, 0,
                               Append(out, leftchar * 64 + v))

b64decode(s) == A2bBase64(s, 0, 0, 0, <<>>)

DataScheme == <<"d","a","t","a",":">>
ImageSlash == <<"i","m","a","g","e","/">>
Base64Mark == <<";","b","a","s","e","6","4",",">>

StartsWith(s, p) == Len(s) >= Len(p) /\ SubSeq(s, 1, Len(p)) = p

\* re.match(r'^data:(image/[^;]+);base64,(.+)$', data_url): None, or the two
\* groups.  [^;]+ ends at the first ";" and must not be empty; "." matches no
\* newline and "$" also matches before one final newline.
DataUrlMatch(data_url) ==
    IF ~StartsWith(data_url, DataScheme \o ImageSlash)
    THEN None
    ELSE LET semis == {k \in 12..Len(data_url) : data_url[k] = ";"} IN
         IF semis = {}
         THEN None
         ELSE LET k == CHOOSE m \in semis : \A n \in semis : m <= n
                  tail == SubSeq(data_url, k, Len(data_url))
                  rest == SubSeq(data_url, k + 8, Len(data_url))
                  body == IF rest # <<>> /\ rest[Len(rest)] = "\n"
                          THEN SubSeq(rest, 1, Len(rest) - 1)
                          ELSE rest
              IN  IF /\ k > 12
                     /\ StartsWith(tail, Base64Mark)
                     /\ body # <<>>
                     /\ \A j \in 1..Len(body) : body[j] # "\n"
                  THEN Some([mime |-> SubSeq(data_url, 6, k - 1), b64 |-> body])
                  ELSE None

\* ext_map.get(mime, 'jpg')
ExtMap(mime) ==
    CASE mime = ImageSlash \o <<"j","p","e","g">> -> "jpg"
      [] mime = ImageSlash \o <<"j","p","g">> -> "jpg"
      [] mime = ImageSlash \o <<"p","n","g">> -> "png"
      [] mime = ImageSlash \o <<"w","e","b","p">> -> "webp"
      [] mime = ImageSlash \o <<"g","i","f">> -> "gif"
      [] mime = ImageSlash \o <<"b","m","p">> -> "bmp"
      [] OTHER -> "jpg"

\* f"{int(time.time()*1000)}_{uuid.uuid4().hex[:8]}.{ext}"
FileName(ms, hex, ext) == [ms |-> ms, hex |-> hex, ext |-> ext]

\* f"/uploads/{fname}"
PublicPath(fname) == [dir |-> "/uploads/", fname |-> fname]

\* _save_data_url_to_file writing an empty file when the payload does not decode
_save_data_url_to_file_undecoded(data_url, ms, hex) ==
    LET m == DataUrlMatch(data_url)
        raw == b64decode(m[1].b64)
        fname == FileName(ms, hex, ExtMap(Lower(m[1].mime)))
    IN  IF data_url = <<>> \/ m = None
        THEN [path |-> None, written |-> None]
        ELSE [path |-> Some(PublicPath(fname)),
              written |-> Some([fname |-> fname,
                                data |-> IF raw = None THEN <<>> ELSE raw[1]])]

\* The result of _save_data_url_to_file: the returned path (None for no
\* image) and the file it wrote, if any.  ms and hex are the clock and the
\* uuid it draws.
_save_data_url_to_file(data_url, ms, hex) ==
    LET m == DataUrlMatch(data_url)
        raw == b64decode(m[1].b64)
        fname == FileName(ms, hex, ExtMap(Lower(m[1].mime)))
    IN  IF data_url = <<>> \/ m = None \/ raw = None
        THEN [path |-> None, written |-> None]
        ELSE [path |-> Some(PublicPath(fname)),
              written |-> Some([fname |-> fname, data |-> raw[1]])]

\* open(fpath, 'wb').write(raw): the file of that name is replaced
WriteFile(fs, written) ==
    IF written = None
    THEN fs
    ELSE {f \in fs : f.fname # written[1].fname} \cup {written[1]}

(***************************************************************************)
(* Reports.                                                                *)
(***************************************************************************)
\* request.headers.get("X-Report-Pwd", "")
HeaderPwd(headers) == IF headers.pwd = None THEN "" ELSE headers.pwd[1]

\* the check passing a request that carries no password header
_require_upload_pwd_absent(headers) ==
    headers.pwd = None \/ HeaderPwd(headers) = REPORT_UPLOAD_PWD

\* TRUE when the check passes, FALSE when it raises HTTPException(403)
_require_upload_pwd(headers) == HeaderPwd(headers) = REPORT_UPLOAD_PWD

_require_admin_pwd(headers) == HeaderPwd(headers) = REPORT_ADMIN_PWD

Forbidden(op, rq) == Response(op, rq, 403, [detail |-> "pwd"])

\* x or None  on an Optional[str]
OrNone(x) == IF x = None \/ x[1] = <<>> THEN None ELSE x

submit_report(requests, uuids) ==
    \E rq \in requests, now \in Times, hex \in uuids :
        LET payload == rq.payload IN
        IF ~_require_upload_pwd(rq.headers)
        THEN /\ resp' = Forbidden("submit_report", rq)
             /\ UNCHANGED <<scores, reports, files>>
        ELSE IF contains_mgc(payload.text, _mgc)
        THEN /\ resp' = Response("submit_report", rq, 200,
                                 APIResponse(FALSE, None, Some("mgc")))
             /\ UNCHANGED <<scores, reports, files>>
        ELSE LET saved == IF OrNone(payload.imgData) # None
                          THEN _save_data_url_to_file(payload.imgData[1], now * 1000, hex)
                          ELSE [path |-> None, written |-> None]
             IN  /\ Len(reports) < MaxReports
                 /\ files' = WriteFile(files, saved.written)
                 /\ reports' = Append(reports,
                        [id |-> Len(reports) + 1,
                         text |-> payload.text,
                         npc |-> OrNone(payload.npc),
                         x |-> payload.x,
                         y |-> payload.y,
                         created_at |-> CreatedAt(payload.ts, now),
                         audited |-> 0,
                         deleted |-> 0,
                         img_data |-> saved.path])
                 /\ resp' = Response("submit_report", rq, 200,
                        APIResponse(TRUE, Some([id |-> Len(reports) + 1]), None))
                 /\ UNCHANGED scores

\* ORDER BY created_at DESC
ReportOrder(r) == <<r.created_at>>

ReportItem(r) ==
    [id |-> r.id, text |-> r.text, npc |-> r.npc, x |-> r.x, y |-> r.y,
     createdAt |-> r.created_at, audited |-> r.audited, deleted |-> r.deleted,
     imgData |-> r.img_data]

\* SELECT COUNT(*) FROM reports
ReportsTotal(rows) == Len(rows)

\* the SELECT without its WHERE clause
NotDeleted_all(r) == TRUE

\* WHERE deleted = 0
NotDeleted(r) == r.deleted = 0

\* SELECT ... FROM reports WHERE deleted = 0 ORDER BY created_at DESC
SelectReports(rows) ==
    LET live == SelectSeq(rows, NotDeleted)
    IN  OrderBy(live, [i \in 1..Len(live) |-> ReportOrder(live[i])])

\* The data of a list_reports response when the SELECT returns the rows in
\* the order `ordered`.
ListReportsData(ordered, total, q) ==
    LET page == ClampPage(q.page)
        limit == ClampLimit(q.limit)
        offset == (page - 1) * limit
        rows == LimitOffset(ordered, limit, offset)
    IN  [items |-> [i \in 1..Len(rows) |-> ReportItem(rows[i])],
         total |-> total, page |-> page, limit |-> limit]

list_reports(queries) ==
    \E ordered \in SelectReports(reports), q \in queries :
        /\ resp' = Response("list_reports", q, 200,
              APIResponse(TRUE, Some(ListReportsData(ordered, ReportsTotal(reports), q)), None))
        /\ UNCHANGED <<scores, reports, files>>

\* an audit that flips the flag when asked to set it
SetAudited_toggle(rows, id, audited) ==
    [i \in 1..Len(rows) |->
        IF rows[i].id = id
        THEN [rows[i] EXCEPT !.audited = IF audited THEN 1 - @ ELSE 0]
        ELSE rows[i]]

\* UPDATE reports SET audited = ? WHERE id = ?
SetAudited(rows, id, audited) ==
    [i \in 1..Len(rows) |->
        IF rows[i].id = id
        THEN [rows[i] EXCEPT !.audited = IF audited THEN 1 ELSE 0]
        ELSE rows[i]]

audit_report(requests) ==
    \E rq \in requests :
        IF ~_require_admin_pwd(rq.headers)
        THEN /\ resp' = Forbidden("audit_report", rq)
             /\ UNCHANGED <<scores, reports, files>>
        ELSE /\ reports' = SetAudited(reports, rq.payload.id, rq.payload.audited)
             /\ resp' = Response("audit_report", rq, 200, APIResponse(TRUE, None, None))
             /\ UNCHANGED <<scores, files>>

\* a delete that also withdraws the approval
SetDeleted_unaudit(rows, id) ==
    [i \in 1..Len(rows) |->
        IF rows[i].id = id
        THEN [rows[i] EXCEPT !.deleted = 1, !.audited = 0]
        ELSE rows[i]]

\* UPDATE reports SET deleted = 1 WHERE id = ?
SetDeleted(rows, id) ==
    [i \in 1..Len(rows) |->
        IF rows[i].id = id THEN [rows[i] EXCEPT !.deleted = 1] ELSE rows[i]]

delete_report(requests) ==
    \E rq \in requests :
        IF ~_require_admin_pwd(rq.headers)
        THEN /\ resp' = Forbidden("delete_report", rq)
             /\ UNCHANGED <<scores, reports, files>>
        ELSE /\ reports' = SetDeleted(reports, rq.payload.id)
             /\ resp' = Response("delete_report", rq, 200, APIResponse(TRUE, None, None))
             /\ UNCHANGED <<scores, files>>

(***************************************************************************)
(* Requests.                                                               *)
(***************************************************************************)
Str_ok == <<"o","k">>
Str_Bob == <<"B","o","b">>
ReportTexts == { Str_ok, <<"b","a","d">>, <<"x","B","A","D">>, <<"N","O">> }
Npcs == { None, Some(<<>>), Some(Str_Bob) }
Coords == { None, Some(-4) }

Png_A == DataScheme \o ImageSlash \o <<"p","n","g">> \o Base64Mark \o <<"Q","Q","=","=">>
Png_junk == DataScheme \o ImageSlash \o <<"P","N","G">> \o Base64Mark \o <<"Q","!","U","I","=">>
Svg_ABC == DataScheme \o ImageSlash \o <<"s","v","g">> \o Base64Mark \o <<"Q","U","J","D">>
Bad_padding == DataScheme \o ImageSlash \o <<"p","n","g">> \o Base64Mark \o <<"Q","Q","=">>
Bad_scheme == <<"D","A","T","A",":">> \o ImageSlash \o <<"p","n","g">> \o Base64Mark \o <<"Q","Q","=","=">>
Bad_mime == DataScheme \o <<"t","e","x","t","/","x">> \o Base64Mark \o <<"Q","Q","=","=">>
Bad_empty == DataScheme \o ImageSlash \o <<"p","n","g">> \o Base64Mark
Bad_raw == <<"Q","Q","=","=">>

ImgDatas ==
    { None, Some(<<>>), Some(Png_A), Some(Png_junk), Some(Svg_ABC), Some(Bad_padding),
      Some(Bad_scheme), Some(Bad_mime), Some(Bad_empty), Some(Bad_raw) }

Uuids == { "0a1b2c3d", "9f8e7d6c" }

\* the header absent, empty, right, and wrong
Pwds == { None, Some(""), Some("123"), Some("1234") }
Headers == [pwd : Pwds]

ReportSubmit ==
    [text : ReportTexts, npc : Npcs, x : Coords, y : Coords, ts : TsValues,
     imgData : ImgDatas]

ReportIds == 0..MaxReports
ReportAudit == [id : ReportIds, audited : BOOLEAN]
ReportDelete == [id : ReportIds]

Requests(headers, payloads) == [headers : headers, payload : payloads]

Init ==
    /\ scores = <<>>
    /\ reports = <<>>
    /\ files = {}
    /\ resp = Response("none", None, 0, None)

(***************************************************************************)
(* The service: every endpoint, on every request.                          *)
(***************************************************************************)
Next ==
    \/ submit_score(ScoreSubmit)
    \/ leaderboard(PageQuery)
    \/ submit_report(Requests(Headers, ReportSubmit), Uuids)
    \/ list_reports(PageQuery)
    \/ audit_report(Requests(Headers, ReportAudit))
    \/ delete_report(Requests(Headers, ReportDelete))

Spec == Init /\ [][Next]_vars

(***************************************************************************)
(* The scores endpoints alone.                                             *)
(***************************************************************************)
Str_Ann == <<"A","n","n">>
Str_Fox == <<"F","o","x">>

RankedScores ==
    [playerName : {Str_Ann}, character : {Str_Fox, <<"b","a","d">>},
     score : ScoreValues, foundCount : FoundCounts, ts : TsValues]

NextScores ==
    \/ submit_score(RankedScores)
    \/ leaderboard(PageQuery)

SpecScores == Init /\ [][NextScores]_vars

(***************************************************************************)
(* Listing and moderation of reports submitted without an image.           *)
(***************************************************************************)
Authorized == [pwd : {Some("123")}]

PlainReports ==
    [text : {Str_ok}, npc : {Some(Str_Bob)}, x : {Some(-4)}, y : {None},
     ts : {None, Some(1)}, imgData : {None}]

NextReports ==
    \/ submit_report(Requests(Authorized, PlainReports), Uuids)
    \/ list_reports(PageQuery)
    \/ audit_report(Requests(Authorized, ReportAudit))
    \/ delete_report(Requests(Authorized, ReportDelete))

SpecReports == Init /\ [][NextReports]_vars

(***************************************************************************)
(* The three password-gated endpoints under every header, moderation aimed *)
(* at the first report.                                                    *)
(***************************************************************************)
GatedReports ==
    [text : {Str_ok}, npc : {None}, x : {None}, y : {None},
     ts : {None}, imgData : {None, Some(Png_A)}]

FirstReport == {0, 1}

NextAuth ==
    \/ submit_report(Requests(Headers, GatedReports), {"0a1b2c3d"})
    \/ audit_report(Requests(Headers, [id : FirstReport, audited : BOOLEAN]))
    \/ delete_report(Requests(Headers, [id : FirstReport]))

SpecAuth == Init /\ [][NextAuth]_vars

(***************************************************************************)
(* Authorized report submissions with every kind of image payload.         *)
(***************************************************************************)
ImageReports ==
    [text : {Str_ok}, npc : {Some(<<>>)}, x : {None}, y : {None},
     ts : {None}, imgData : ImgDatas]

NextUploads ==
    \/ submit_report(Requests(Authorized, ImageReports), Uuids)
    \/ list_reports([page : {1, 2}, limit : {1}])

SpecUploads == Init /\ [][NextUploads]_vars

(***************************************************************************)
(* Submissions of clean and banned content to both tables.                 *)
(***************************************************************************)
NamedScores ==
    [playerName : PlayerNames, character : Characters, score : {10},
     foundCount : FoundCounts, ts : {None}]

WordedReports ==
    [text : ReportTexts, npc : {None}, x : {None}, y : {None},
     ts : {None}, imgData : {None, Some(Png_A)}]

NextFilter ==
    \/ submit_score(NamedScores)
    \/ submit_report(Requests([pwd : {Some("123"), Some("1234")}], WordedReports),
                     {"0a1b2c3d"})

SpecFilter == Init /\ [][NextFilter]_vars

(***************************************************************************)
(* Properties.  What a property expects is written out on its own, from    *)
(* the statement it checks, and not with the operators of the handlers.    *)
(***************************************************************************)
IsLeaderboard == resp.op = "leaderboard" /\ resp.status = 200 /\ resp.body.ok

\* A is listed before B: higher score, or equal score and not older
RankedBefore(a, b) ==
    \/ a.score > b.score
    \/ a.score = b.score /\ a.createdAt >= b.createdAt

PageItems(orders, p, l) ==
    UNION {LET items == LeaderboardData(ordered, Len(ordered),
                                        [page |-> p, limit |-> l]).items
           IN  {items[k] : k \in 1..Len(items)} :
           ordered \in orders}

\* C6: in every leaderboard response a row listed before another has the
\* higher score, or the same score and a creation time not older; and every
\* row of page p is so ordered before every row of page p+1 of the same
\* table, whichever order the database gives to rows that compare equal.
C6_LeaderboardOrder ==
    /\ IsLeaderboard =>
          LET items == resp.body.data[1].items
          IN  \A i, j \in 1..Len(items) : i < j => RankedBefore(items[i], items[j])
    /\ LET orders == SelectScores(scores) IN
       \A p \in {n \in Pages : n >= 1}, l \in Limits :
          \A a \in PageItems(orders, p, l), b \in PageItems(orders, p + 1, l) :
              RankedBefore(a, b)

\* a page of two rows of one score and different creation times, with a
\* further page behind it
C6_Witness ==
    /\ IsLeaderboard
    /\ LET d == resp.body.data[1]
       IN  /\ Len(d.items) = 2
           /\ d.items[1].score = d.items[2].score
           /\ d.items[1].createdAt > d.items[2].createdAt
           /\ d.page = 1
           /\ d.total > 2

\* C9: the stored creation timestamp of a score or a report is the ts of the
\* request whenever the request carries one (0 included); the server's clock
\* is used only when ts is absent.
C9_ClientTimestampStored ==
    /\ (resp.op = "submit_score" /\ resp.status = 200 /\ resp.body.ok
            /\ resp.req.ts # None)
          => scores[resp.body.data[1].id].created_at = resp.req.ts[1]
    /\ (resp.op = "submit_report" /\ resp.status = 200 /\ resp.body.ok
            /\ resp.req.payload.ts # None)
          => reports[resp.body.data[1].id].created_at = resp.req.payload.ts[1]

IsListing == resp.op = "list_reports" /\ resp.status = 200 /\ resp.body.ok

\* the fields of a report row that no endpoint rewrites
Content(r) ==
    [id |-> r.id, text |-> r.text, npc |-> r.npc, x |-> r.x, y |-> r.y,
     created_at |-> r.created_at, img_data |-> r.img_data]

\* every listing the current table can produce, over all pages and limits
C3_NoDeletedListed ==
    /\ IsListing =>
          \A k \in 1..Len(resp.body.data[1].items) :
              resp.body.data[1].items[k].deleted # 1
    /\ \A ordered \in SelectReports(reports), q \in PageQuery :
          LET items == ListReportsData(ordered, ReportsTotal(reports), q).items
          IN  \A k \in 1..Len(items) : items[k].deleted # 1

\* a delete_report step rewrites nothing but the deleted flag of its target,
\* and a row that is deleted stays in storage, deleted, with its content
C3_DeletedRowKept ==
    \A i \in 1..Len(reports) :
        /\ (resp'.op = "delete_report" /\ resp'.status = 200) =>
              /\ Len(reports') = Len(reports)
              /\ reports'[i] =
                    IF reports[i].id = resp'.req.payload.id
                    THEN [reports[i] EXCEPT !.deleted = 1]
                    ELSE reports[i]
        /\ reports[i].deleted = 1 =>
              /\ i <= Len(reports')
              /\ reports'[i].deleted = 1
              /\ Content(reports'[i]) = Content(reports[i])

\* C3: after any sequence of operations list_reports, for every page and
\* limit, returns no report whose deleted flag is 1, while a report deleted
\* by delete_report is still in storage with deleted = 1 and its other
\* fields as delete_report found them.
C3_SoftDelete == []C3_NoDeletedListed /\ [][C3_DeletedRowKept]_vars

\* a listing that shows a report while another, deleted one is in storage
C3_Witness ==
    /\ IsListing
    /\ Len(resp.body.data[1].items) >= 1
    /\ \E i \in 1..Len(reports) : reports[i].deleted = 1 /\ reports[i].audited = 1

\* C4: the total of a list_reports response is the number of rows the
\* listing pages over, the reports that are not deleted, also after some
\* reports were soft-deleted.
C4_ListTotalCountsListed ==
    IsListing =>
        resp.body.data[1].total =
            Cardinality({i \in 1..Len(reports) : reports[i].deleted = 0})

Moderation == {"audit_report", "delete_report"}

\* C7: an authorized audit_report repeated with the same id and audited
\* value, or an authorized delete_report repeated with the same id, leaves
\* the reports table as the first call left it, and both calls answer ok:true.
C7_Repeat ==
    (/\ resp.op \in Moderation
     /\ resp.status = 200
     /\ resp'.op = resp.op
     /\ resp'.req = resp.req)
        => /\ reports' = reports
           /\ resp.body.ok
           /\ resp'.status = 200
           /\ resp'.body.ok

C7_Idempotent == [][C7_Repeat]_vars

\* an audit that set the flag of a stored report, ready to be repeated
C7_Witness ==
    /\ resp.op = "audit_report"
    /\ resp.status = 200
    /\ resp.req.payload.audited
    /\ \E i \in 1..Len(reports) :
          reports[i].id = resp.req.payload.id /\ reports[i].audited = 1

\* C8: a report is created with audited = 0 and deleted = 0; deleted never
\* goes back from 1 to 0; audit_report sets audited to what it is asked on
\* any stored report, a deleted one too, and leaves deleted alone;
\* delete_report leaves audited alone.
C8_Step ==
    /\ Len(reports') >= Len(reports)
    /\ \A i \in 1..Len(reports') :
          i > Len(reports) => reports'[i].audited = 0 /\ reports'[i].deleted = 0
    /\ \A i \in 1..Len(reports) :
          /\ reports[i].deleted = 1 => reports'[i].deleted = 1
          /\ resp'.op = "audit_report" => reports'[i].deleted = reports[i].deleted
          /\ (resp'.op = "audit_report" /\ resp'.status = 200
                /\ reports[i].id = resp'.req.payload.id)
                => reports'[i].audited = (IF resp'.req.payload.audited THEN 1 ELSE 0)
          /\ resp'.op = "delete_report" => reports'[i].audited = reports[i].audited

C8_Lifecycle == [][C8_Step]_vars

\* an audit that approved a report already deleted
C8_Witness ==
    /\ resp.op = "audit_report"
    /\ resp.status = 200
    /\ resp.req.payload.audited
    /\ \E i \in 1..Len(reports) :
          /\ reports[i].id = resp.req.payload.id
          /\ reports[i].deleted = 1
          /\ reports[i].audited = 1

Gated == {"submit_report", "audit_report", "delete_report"}

\* the X-Report-Pwd header of the request is the required password
RightPwd(rq) == rq.headers.pwd = <<"123">>

\* C2: a password-gated request whose X-Report-Pwd header is missing or is
\* not the required password is answered 403 and changes nothing: no report
\* row, no image file, no audited or deleted flag.
C2_Step ==
    (resp'.op \in Gated /\ ~RightPwd(resp'.req))
        => /\ resp'.status = 403
           /\ UNCHANGED <<scores, reports, files>>

C2_WrongPwdRejected == [][C2_Step]_vars

\* a report with a valid image was refused for its missing header, after a
\* report was stored
C2_Witness ==
    /\ resp.op = "submit_report"
    /\ resp.status = 403
    /\ resp.req.headers.pwd = None
    /\ resp.req.payload.imgData = Some(Png_A)
    /\ Len(reports) >= 1
    /\ files = {}

\* The image payloads of the requests that are well-formed data URLs with a
\* payload base64 decodes, and the bytes each encodes: "QQ==" is "A",
\* "Q!UI=" is "QUI=" once the "!" is skipped, "AB", and "QUJD" is "ABC".
Decodable == {Png_A, Png_junk, Svg_ABC}

Encoded(data_url) ==
    CASE data_url = Png_A -> <<65>>
      [] data_url = Png_junk -> <<65, 66>>
      [] data_url = Svg_ABC -> <<65, 66, 67>>

HasImage(rq) == rq.payload.imgData # None /\ rq.payload.imgData[1] \in Decodable

IsSubmitted(r) == r.op = "submit_report" /\ r.status = 200 /\ r.body.ok

\* an authorized submission of a clean text is stored whatever its imgData
C10_Stored ==
    (resp.op = "submit_report" /\ RightPwd(resp.req)
        /\ resp.req.payload.text = Str_ok)
        => /\ IsSubmitted(resp)
           /\ resp.body.data[1].id = Len(reports)
           /\ LET row == reports[Len(reports)] IN
              /\ row.id = resp.body.data[1].id
              /\ row.text = resp.req.payload.text
              /\ IF HasImage(resp.req)
                 THEN /\ row.img_data # None
                      /\ row.img_data[1].dir = "/uploads/"
                      /\ \E f \in files :
                            /\ f.fname = row.img_data[1].fname
                            /\ f.data = Encoded(resp.req.payload.imgData[1])
                 ELSE row.img_data = None

\* the submission adds exactly one row and, without an image, no file
C10_Step ==
    IsSubmitted(resp') =>
        /\ reports' = Append(reports, reports'[Len(reports')])
        /\ ~HasImage(resp'.req) => files' = files

\* C10: an authorized submit_report of a non-banned text whose imgData is
\* not a well-formed image data URL, or does not decode, answers ok:true
\* with a new id, inserts exactly one row with a NULL image reference and
\* writes no file; with a well-formed data URL the reference is a path under
\* /uploads/ naming a file written with the decoded bytes.
C10_ImageDegrades == []C10_Stored /\ [][C10_Step]_vars

\* a data URL with bad padding was stored as a report without an image,
\* next to a report whose image was written
C10_Witness ==
    /\ IsSubmitted(resp)
    /\ resp.req.payload.imgData = Some(Bad_padding)
    /\ reports[Len(reports)].img_data = None
    /\ \E i \in 1..Len(reports) : reports[i].img_data # None
    /\ files # {}

\* The banned words that file lists, and containment whatever the case of
\* the letters.
BannedWords == { <<"B","a","d">>, <<"n","o">> }

SameLetter(a, b) ==
    \/ a = b
    \/ \E i \in 1..26 : {a, b} = {UpperChars[i], LowerChars[i]}

HasBanned(s) ==
    \E w \in BannedWords :
        \E off \in 0..(Len(s) - Len(w)) :
            \A k \in 1..Len(w) : SameLetter(s[off + k], w[k])

BannedReport(r) == r.op = "submit_report" /\ HasBanned(r.req.payload.text)

BannedScore(r) ==
    /\ r.op = "submit_score"
    /\ HasBanned(r.req.playerName) \/ HasBanned(r.req.character)

RefusedAsBanned(r) == r.status = 200 /\ ~r.body.ok

NoBannedRow ==
    /\ \A i \in 1..Len(reports) : ~HasBanned(reports[i].text)
    /\ \A i \in 1..Len(scores) :
          ~HasBanned(scores[i].player_name) /\ ~HasBanned(scores[i].character)

\* a submission of banned content changes no table and writes no file
C1_Step ==
    (BannedReport(resp') \/ BannedScore(resp'))
        => UNCHANGED <<scores, reports, files>>

\* C1 as stated: no stored row holds banned content, and a submit_report
\* whose text holds a banned word, whatever the case of its letters, answers
\* ok:false, inserts no row and writes no file; a submit_score whose
\* playerName or character holds one answers ok:false and inserts no row.
C1_BannedAnswersOkFalse ==
    /\ [](/\ NoBannedRow
          /\ BannedReport(resp) => RefusedAsBanned(resp)
          /\ BannedScore(resp) => RefusedAsBanned(resp))
    /\ [][C1_Step]_vars

\* C1 as the code has it: the same, with submit_report answering ok:false
\* when it carries the upload password and 403 when it does not.
C1_BannedNeverStored ==
    /\ [](/\ NoBannedRow
          /\ BannedReport(resp) =>
                IF RightPwd(resp.req) THEN RefusedAsBanned(resp) ELSE resp.status = 403
          /\ BannedScore(resp) => RefusedAsBanned(resp))
    /\ [][C1_Step]_vars

\* an authorized report of a banned word in capitals, with a valid image,
\* was refused and left no file
C1_Witness ==
    /\ resp.op = "submit_report"
    /\ RightPwd(resp.req)
    /\ resp.req.payload.text = <<"x","B","A","D">>
    /\ resp.req.payload.imgData = Some(Png_A)
    /\ RefusedAsBanned(resp)
    /\ files = {}
    /\ Len(scores) >= 1
====
